---- MODULE Spec2Model ----
(***************************************************************************)
(* Model of the Plotter class of FlightPathAnalysis                        *)
(* (src/src/frontend/plotter.py).                                          *)
(*                                                                         *)
(* The only attribute a Plotter keeps is self.options; every plot call is  *)
(* a synchronous computation from the decoded files and the options to     *)
(* what is drawn, saved or raised.  The state is therefore                 *)
(*   options : the configuration given to __init__,                        *)
(*   result  : what the call in progress produced (op = "none": no call).  *)
(*                                                                         *)
(* Floating-point values are modelled as exact rationals [n, d] in lowest  *)
(* terms, extended with NaN ([0,0]) and the infinities ([1,0], [-1,0]).    *)
(***************************************************************************)
EXTENDS Integers, Sequences, FiniteSets, TLC

(***************************************************************************)
(* Extended rational arithmetic (IEEE-754 special values, exact otherwise) *)
(***************************************************************************)
Abs(i) == IF i < 0 THEN -i ELSE i

Sign(i) == IF i < 0 THEN -1 ELSE IF i > 0 THEN 1 ELSE 0

RECURSIVE Gcd(_, _)
Gcd(a, b) == IF b = 0 THEN a ELSE Gcd(b, a % b)

\* the float n/d; d = 0 gives NaN (n = 0) or a signed infinity
Rat(n, d) ==
    IF d = 0 THEN [n |-> Sign(n), d |-> 0]
    ELSE LET g == Gcd(Abs(n), Abs(d))
             s == IF d < 0 THEN -1 ELSE 1
         IN  [n |-> s * (n \div g), d |-> s * (d \div g)]

Int2R(i) == [n |-> i, d |-> 1]

NaN == [n |-> 0, d |-> 0]

IsNaN(x) == x.d = 0 /\ x.n = 0

IsInf(x) == x.d = 0 /\ x.n # 0

IsFinite(x) == x.d # 0

RAdd(x, y) ==
    IF IsNaN(x) \/ IsNaN(y) THEN NaN
    ELSE IF IsInf(x) /\ IsInf(y) THEN (IF x.n = y.n THEN x ELSE NaN)
    ELSE IF IsInf(x) THEN x
    ELSE IF IsInf(y) THEN y
    ELSE Rat(x.n * y.d + y.n * x.d, x.d * y.d)

RNeg(x) == [n |-> -x.n, d |-> x.d]

RSub(x, y) == RAdd(x, RNeg(y))

RMul(x, y) ==
    IF IsNaN(x) \/ IsNaN(y) THEN NaN
    ELSE IF IsInf(x) \/ IsInf(y) THEN [n |-> Sign(x.n) * Sign(y.n), d |-> 0]
    ELSE Rat(x.n * y.n, x.d * y.d)

RDiv(x, y) ==
    IF IsNaN(x) \/ IsNaN(y) THEN NaN
    ELSE IF IsInf(y) THEN (IF IsInf(x) THEN NaN ELSE Int2R(0))
    ELSE IF IsInf(x) THEN [n |-> x.n * (IF y.n < 0 THEN -1 ELSE 1), d |-> 0]
    ELSE Rat(x.n * y.d, x.d * y.n)

\* IEEE comparisons: every comparison with NaN is false
RLess(x, y) ==
    /\ ~IsNaN(x) /\ ~IsNaN(y)
    /\ IF IsInf(x) \/ IsInf(y)
       THEN (IF IsInf(x) THEN x.n ELSE 0) < (IF IsInf(y) THEN y.n ELSE 0)
       ELSE x.n * y.d < y.n * x.d

RLeq(x, y) == ~IsNaN(x) /\ ~IsNaN(y) /\ (x = y \/ RLess(x, y))

REq(x, y) == ~IsNaN(x) /\ ~IsNaN(y) /\ x = y

(***************************************************************************)
(* Values c * sqrt(r), r a positive integer: what np.std returns is in     *)
(* general irrational.  The rationals are the values with r = 1.           *)
(***************************************************************************)
RECURSIVE Isqrt(_, _, _)
\* the integer square root of m, searched in lo..hi by bisection
Isqrt(m, lo, hi) ==
    IF lo >= hi THEN lo
    ELSE LET mid == (lo + hi + 1) \div 2
         IN  IF mid * mid <= m THEN Isqrt(m, mid, hi) ELSE Isqrt(m, lo, mid - 1)

\* 46340 is the largest root of a 32-bit integer
Root(m) == Isqrt(m, 0, IF m < 46340 THEN m ELSE 46340)

IsSquare(m) == Root(m) * Root(m) = m

\* c * sqrt(v), v a rational >= 0 or NaN; r = 1 when sqrt(v) is rational
Surd(c, v) ==
    IF IsNaN(c) \/ IsNaN(v) THEN [c |-> NaN, r |-> 1]
    ELSE IF v.n = 0 \/ c.n = 0 THEN [c |-> Int2R(0), r |-> 1]
    ELSE IF IsSquare(v.n) /\ IsSquare(v.d)
         THEN [c |-> RMul(c, Rat(Root(v.n), Root(v.d))), r |-> 1]
    ELSE [c |-> RDiv(c, Int2R(v.d)), r |-> v.n * v.d]

SurdOfRat(x) == [c |-> x, r |-> 1]

\* the square of a value c * sqrt(r)
SurdSq(u) == RMul(RMul(u.c, u.c), Int2R(u.r))

(***************************************************************************)
(* Sequences and matrices (a matrix is a sequence of rows)                 *)
(***************************************************************************)
Range(s) == {s[i] : i \in 1..Len(s)}

RECURSIVE RSum(_)
RSum(s) == IF s = <<>> THEN Int2R(0) ELSE RAdd(Head(s), RSum(Tail(s)))

RECURSIVE Insert(_, _)
Insert(x, s) ==
    IF s = <<>> THEN <<x>>
    ELSE IF RLeq(x, Head(s)) THEN <<x>> \o s
    ELSE <<Head(s)>> \o Insert(x, Tail(s))

RECURSIVE Sorted(_)
\* ascending order
Sorted(s) == IF s = <<>> THEN <<>> ELSE Insert(Head(s), Sorted(Tail(s)))

NCols(m) == IF m = <<>> THEN 0 ELSE Len(m[1])

Column(m, k) == [i \in 1..Len(m) |-> m[i][k]]

RECURSIVE SelectIdx(_, _, _)
\* the entries of s at the indices k..Len(s) whose keep flag is set
SelectIdx(s, keep, k) ==
    IF k > Len(s) THEN <<>>
    ELSE (IF keep[k] THEN <<s[k]>> ELSE <<>>) \o SelectIdx(s, keep, k + 1)

(***************************************************************************)
(* numpy                                                                   *)
(***************************************************************************)
\* variant: np.linspace(start, stop, num=num, endpoint=False)
linspace_open(start, stop, num) ==
    LET step == RDiv(RSub(stop, start), Int2R(num))
    IN  [i \in 1..num |-> IF i = 1 THEN start ELSE RAdd(start, RMul(Int2R(i - 1), step))]

\* np.linspace(start, stop, num=num): endpoint included
linspace(start, stop, num) ==
    LET step == IF num > 1 THEN RDiv(RSub(stop, start), Int2R(num - 1)) ELSE NaN
    IN  [i \in 1..num |->
            IF i = 1 THEN start
            ELSE IF i = num THEN stop
            ELSE RAdd(start, RMul(Int2R(i - 1), step))]

\* one point of np.interp(x, xp, fp), xp increasing and not empty
InterpAt(x, xp, fp) ==
    LET n == Len(xp) IN
    IF IsNaN(x) THEN x
    ELSE IF RLess(x, xp[1]) THEN fp[1]
    ELSE IF RLess(xp[n], x) THEN fp[n]
    ELSE LET j == CHOOSE k \in 1..n :
                      RLeq(xp[k], x) /\ (k = n \/ RLess(x, xp[k + 1]))
         IN  IF j = n THEN fp[n]
             ELSE IF xp[j] = x THEN fp[j]
             ELSE LET slope == RDiv(RSub(fp[j + 1], fp[j]), RSub(xp[j + 1], xp[j]))
                      fwd == RAdd(RMul(slope, RSub(x, xp[j])), fp[j])
                      bwd == RAdd(RMul(slope, RSub(x, xp[j + 1])), fp[j + 1])
                  IN  IF ~IsNaN(fwd) THEN fwd
                      ELSE IF ~IsNaN(bwd) THEN bwd
                      ELSE IF REq(fp[j], fp[j + 1]) THEN fp[j]
                      ELSE bwd

\* np.interp(xs, xp, fp)
interp(xs, xp, fp) == [i \in 1..Len(xs) |-> InterpAt(xs[i], xp, fp)]

Modulus == 360

\* variant: np.fmod(x, 360), the result has the sign of the dividend
fmod(x) ==
    IF ~IsFinite(x) THEN NaN
    ELSE Rat(Sign(x.n) * (Abs(x.n) % (Modulus * x.d)), x.d)

\* np.mod(x, 360): the result has the sign of the divisor; NaN for NaN, inf
mod(x) ==
    IF ~IsFinite(x) THEN NaN ELSE Rat(x.n % (Modulus * x.d), x.d)

\* np.mean(col) and np.average(col): NaN for an empty column
mean(col) == RDiv(RSum(col), Int2R(Len(col)))

\* variant: the upper of the two middle values of the sorted column
median_high(col) ==
    LET n == Len(col)
        s == Sorted(col)
    IN  IF n = 0 \/ \E i \in 1..n : IsNaN(col[i]) THEN NaN
        ELSE s[n \div 2 + 1]

\* np.median(col): mean of the two middle values of the sorted column
median(col) ==
    LET n == Len(col)
        s == Sorted(col)
    IN  IF n = 0 \/ \E i \in 1..n : IsNaN(col[i]) THEN NaN
        ELSE IF n % 2 = 1 THEN s[(n + 1) \div 2]
        ELSE RDiv(RAdd(s[n \div 2], s[n \div 2 + 1]), Int2R(2))

\* variant: np.std(col, ddof=1), the sample standard deviation
std_sample(col) ==
    LET n == Len(col)
        mu == mean(col)
        dev == [i \in 1..n |-> RMul(RSub(col[i], mu), RSub(col[i], mu))]
    IN  Surd(Int2R(1), RDiv(RSum(dev), Int2R(n - 1)))

\* np.std(col): population standard deviation (ddof = 0)
std(col) ==
    LET n == Len(col)
        mu == mean(col)
        dev == [i \in 1..n |-> RMul(RSub(col[i], mu), RSub(col[i], mu))]
    IN  Surd(Int2R(1), RDiv(RSum(dev), Int2R(n)))

\* np.percentile(col, q), 0 <= q <= 100, linear interpolation between the
\* two nearest ranks of the sorted column
percentile(col, q) ==
    LET n == Len(col)
        s == Sorted(col)
        pos == RMul(RDiv(q, Int2R(100)), Int2R(n - 1))
        lo == pos.n \div pos.d
        hi == IF lo + 1 > n - 1 THEN n - 1 ELSE lo + 1
        g == RSub(pos, Int2R(lo))
    IN  IF n = 0 \/ \E i \in 1..n : IsNaN(col[i]) THEN NaN
        ELSE RAdd(s[lo + 1], RMul(RSub(s[hi + 1], s[lo + 1]), g))

(***************************************************************************)
(* Bounds and inputs                                                       *)
(***************************************************************************)
\* largest point-precision (M) a configuration sets
MaxPrecision == 3

\* largest number of state-vector files handed to one call
MaxFiles == 2

\* largest number of deviation-values in a configuration
MaxLevels == 2

\* the kernel density estimate takes its values in 1..MaxDensity
MaxDensity == 3

Ints(s) == [i \in 1..Len(s) |-> Int2R(s[i])]

\* a decoded state-vector file: a table with named columns of equal length
Frame(t, lat, lon, vel) ==
    [time |-> Ints(t), lat |-> lat, lon |-> lon, heading |-> lon, velocity |-> vel]

\* the same table without its velocity column
NoVelocity(f) == [c \in DOMAIN f \ {"velocity"} |-> f[c]]

\* what compressor.decode_to_dataframe_from_file can return: tables of
\* 0 to 3 samples, with a missing sample (NaN), a missing column, longitudes
\* and headings on both sides of the 0/360 boundary
FrA == Frame(<<0, 2>>, Ints(<<1, 1>>), Ints(<<1, 3>>), Ints(<<1, 3>>))

FrB == Frame(<<0, 2>>, Ints(<<3, 3>>), Ints(<<3, 5>>), Ints(<<3, 5>>))

FrC == Frame(<<1, 5>>, Ints(<<2, 2>>), Ints(<<350, 10>>), Ints(<<5, 1>>))

FrD == Frame(<<0, 1, 4>>, Ints(<<4, 4, 4>>), Ints(<<-3, 363, 3>>), <<Int2R(1), NaN, Int2R(5)>>)

FrE == Frame(<<0, 2>>, Ints(<<1, 1>>), <<NaN, Int2R(3)>>, <<NaN, Int2R(3)>>)

FrF == Frame(<<2>>, Ints(<<5>>), Ints(<<5>>), Ints(<<5>>))

FrG == Frame(<<>>, <<>>, <<>>, <<>>)

FrH == Frame(<<1, 5>>, Ints(<<2, 2>>), Ints(<<-3, 1>>), Ints(<<5, 1>>))

\* the tables the quantity plots are given
Frames == {FrA, FrB, FrC, FrD, FrE, FrF, FrG, NoVelocity(FrA)}

\* the tables the route plots are given
RouteFrames == {FrA, FrB, FrE, FrF, FrG, FrH}

RECURSIVE ListsOf(_, _)
\* the lists of 1..n elements of S
ListsOf(S, n) ==
    IF n = 0 THEN {}
    ELSE ListsOf(S, n - 1) \cup [1..n -> S]

\* the quantities of QUANTITY_NAMES that the calls below ask for
Quantities == {"lon", "heading", "velocity"}

Levels == {Int2R(1), Int2R(50)}

\* deviation-values: lists of 1..n different levels, in any order
LevelLists(n) ==
    {s \in ListsOf(Levels, n) : \A i, j \in 1..Len(s) : i # j => s[i] # s[j]}

\* config['plotting'], the entries the computations read
Configs ==
    [ precision : 2..MaxPrecision,
      expectation : {"mean", "median", "average", "mode"},
      deviation : {"std", "pct", "var"},
      values : LevelLists(MaxLevels) ]

\* the positions handed to a direct call of generate_confidence_region:
\* PathLen collinear points, Spacing apart, on a horizontal or vertical line
PathLen == 3

MaxSpacing == 2

Paths ==
    UNION { { <<[i \in 1..PathLen |-> Int2R((i - 1) * d)], [i \in 1..PathLen |-> Int2R(0)]>>,
              <<[i \in 1..PathLen |-> Int2R(1)], [i \in 1..PathLen |-> Int2R((i - 1) * d)]>> }
            : d \in 1..MaxSpacing }

\* and the deviations, one per position
PathSigmas ==
    [1..PathLen -> {SurdOfRat(Rat(1, 2)), SurdOfRat(Int2R(1)), SurdOfRat(Rat(3, 2))}]

(***************************************************************************)
(* State                                                                   *)
(***************************************************************************)
VARIABLES options, result

vars == <<options, result>>

\* no call in progress: nothing is drawn, saved or raised
NoResult ==
    [ op |-> "none", err |-> "none", ax |-> FALSE, filename |-> FALSE,
      saved |-> FALSE, drawn |-> FALSE,
      quantity |-> "none", files |-> <<>>,
      grid |-> <<>>, resampled |-> <<>>, mask |-> <<>>, ys |-> <<>>,
      xs |-> <<>>, kde_values |-> <<>>, colors_value |-> <<>>,
      expectation |-> <<>>, expectation_name |-> "none",
      sigmas |-> <<>>, sigma_names |-> <<>>, sigma |-> <<>>,
      sigma_lon |-> <<>>, sigma_lat |-> <<>>, bands |-> <<>>,
      regions |-> <<>>, fills |-> <<>> ]

\* Plotter.__init__; the levels are given in ascending order, so that the
\* shaded plots have to reverse them
Init ==
    /\ options \in {c \in Configs : c.values = <<Int2R(1), Int2R(50)>>}
    /\ result = NoResult

\* no call is in progress
Idle == result.op = "none"

(***************************************************************************)
(* ax and filename                                                         *)
(***************************************************************************)
ErrBoth == "ValueError: Cannot specify both ax and filename"

\* What a call leaves, given what its computation produced (out).  The
\* plots test ax and filename before anything else and raise when both are
\* given; fig is None when an ax is given, and fig.savefig(filename) is the
\* last statement.
Deliver(call, out, filename, ax) ==
    IF ax /\ filename
    THEN [call EXCEPT !.err = ErrBoth, !.ax = ax, !.filename = filename]
    ELSE [out EXCEPT !.ax = ax, !.filename = filename,
                     !.saved = (out.err = "none" /\ filename)]

\* the same for plot_multiple_routes_shaded, which does not test the two
\* and saves only the figure it made itself
DeliverShaded(out, filename, ax) ==
    [out EXCEPT !.ax = ax, !.filename = filename,
                !.saved = (out.err = "none" /\ filename /\ ~ax)]

\* the call ends with out, for every way to give ax and filename
Finish(call, out) ==
    \E filename \in BOOLEAN, ax \in BOOLEAN :
        result' = Deliver(call, out, filename, ax)

FinishShaded(out) ==
    \E filename \in BOOLEAN, ax \in BOOLEAN :
        result' = DeliverShaded(out, filename, ax)

(***************************************************************************)
(* Resampling                                                              *)
(***************************************************************************)

ErrQuantity == "ValueError: Quantity not found in state vector file."

\* df[cols]: pandas raises KeyError when a label is not a column
Select(df, cols) ==
    IF cols \subseteq DOMAIN df
    THEN [err |-> "none", df |-> [c \in cols |-> df[c]]]
    ELSE [err |-> "KeyError", df |-> <<>>]

\* the time grid of one table: np.linspace(first time, last time, M);
\* .iloc[0] of a table with no rows raises IndexError
TimeGrid(df, M) ==
    IF Len(df["time"]) = 0 THEN [err |-> "IndexError", time |-> <<>>]
    ELSE [err |-> "none",
          time |-> linspace(df["time"][1], df["time"][Len(df["time"])], M)]

Circular(quantity) == quantity \in {"lon", "heading"}

RECURSIVE Unwrap(_, _)
\* the first k samples of a circular quantity with every step from one
\* sample to the next brought into [-180, 180), as np.unwrap does in degrees
Unwrap(fp, k) ==
    IF k = 0 THEN <<>>
    ELSE IF k = 1 THEN <<fp[1]>>
    ELSE LET u == Unwrap(fp, k - 1)
             step == RSub(mod(RAdd(RSub(fp[k], fp[k - 1]), Int2R(180))), Int2R(180))
         IN  Append(u, RAdd(u[k - 1], step))

\* variant: a circular quantity is unwrapped before the interpolation, which
\* then follows the shorter arc between two samples
ResampleUnwrapped(frame, quantity, M) ==
    LET sel == Select(frame, {"time", quantity})
        df == sel.df
        g == TimeGrid(df, M)
        fp == IF Circular(quantity) THEN Unwrap(df[quantity], Len(df[quantity]))
              ELSE df[quantity]
        lin == interp(g.time, df["time"], fp)
        val == IF Circular(quantity) THEN [i \in 1..Len(lin) |-> mod(lin[i])] ELSE lin
    IN  IF sel.err # "none" THEN [err |-> sel.err, time |-> <<>>, val |-> <<>>]
        ELSE IF quantity \notin DOMAIN df THEN [err |-> ErrQuantity, time |-> <<>>, val |-> <<>>]
        ELSE IF g.err # "none" THEN [err |-> g.err, time |-> <<>>, val |-> <<>>]
        ELSE [err |-> "none", time |-> g.time, val |-> val]

\* one table resampled for one quantity, as plot_quantity does it
ResampleQuantity(frame, quantity, M) ==
    LET sel == Select(frame, {"time", quantity})
        df == sel.df
        g == TimeGrid(df, M)
        lin == interp(g.time, df["time"], df[quantity])
        val == IF Circular(quantity) THEN [i \in 1..Len(lin) |-> mod(lin[i])] ELSE lin
    IN  IF sel.err # "none" THEN [err |-> sel.err, time |-> <<>>, val |-> <<>>]
        ELSE IF quantity \notin DOMAIN df THEN [err |-> ErrQuantity, time |-> <<>>, val |-> <<>>]
        ELSE IF g.err # "none" THEN [err |-> g.err, time |-> <<>>, val |-> <<>>]
        ELSE [err |-> "none", time |-> g.time, val |-> val]

(***************************************************************************)
(* plot_quantity                                                           *)
(***************************************************************************)
plot_quantity(frame, quantity) ==
    LET M == options.precision
        r == ResampleQuantity(frame, quantity, M)
        call == [NoResult EXCEPT !.op = "plot_quantity", !.quantity = quantity,
                                 !.files = <<frame>>]
    IN  /\ Idle
        /\ UNCHANGED options
        /\ Finish(call, IF r.err # "none" THEN [call EXCEPT !.err = r.err]
                        ELSE [call EXCEPT !.grid = <<r.time>>, !.resampled = <<r.val>>,
                                          !.xs = r.time, !.ys = <<r.val>>,
                                          !.drawn = TRUE])

(***************************************************************************)
(* Stacks of several trajectories of one quantity                          *)
(***************************************************************************)
RECURSIVE StackQuantity(_, _, _, _)
\* the loop over the files, from file i on: it stops at the first error
StackQuantity(files, quantity, M, i) ==
    IF i > Len(files) THEN [err |-> "none", grid |-> <<>>, rows |-> <<>>]
    ELSE LET r == ResampleQuantity(files[i], quantity, M)
             rest == StackQuantity(files, quantity, M, i + 1)
         IN  IF r.err # "none" THEN [err |-> r.err, grid |-> <<>>, rows |-> <<>>]
             ELSE IF rest.err # "none" THEN rest
             ELSE [err |-> "none", grid |-> <<r.time>> \o rest.grid,
                   rows |-> <<r.val>> \o rest.rows]

\* total_ts: the duration of each resampled trajectory
TotalTs(grid) == [i \in 1..Len(grid) |-> RSub(grid[i][Len(grid[i])], grid[i][1])]

\* variant: mask = ~np.all(np.isnan(ys), axis=0)
ColumnMaskAll(rows, M) == [k \in 1..M |-> ~\A i \in 1..Len(rows) : IsNaN(rows[i][k])]

\* mask = ~np.any(np.isnan(ys), axis=0): one flag per grid column
ColumnMask(rows, M) == [k \in 1..M |-> ~\E i \in 1..Len(rows) : IsNaN(rows[i][k])]

\* ys[:, mask]
MaskColumns(rows, mask) == [i \in 1..Len(rows) |-> SelectIdx(rows[i], mask, 1)]

(***************************************************************************)
(* Kernel density and its normalisation                                    *)
(***************************************************************************)
\* the estimator is a library function of the pooled cloud; its values are
\* taken from an oracle: one density per distinct point of the cloud
DensDom == 1..MaxDensity

\* the largest pooled cloud: every grid point of every file
MaxCloud == MaxFiles * MaxPrecision

\* per cloud size, the oracles a specification lets the estimator follow
AllOracles == [n \in 1..MaxCloud |-> [1..n -> DensDom]]

FewOracles ==
    [n \in 1..MaxCloud |->
        {[k \in 1..n |-> 1], [k \in 1..n |-> ((k - 1) % MaxDensity) + 1]}]

\* the cloud lies on one line (or is one point): its covariance is singular
Collinear(cloud) ==
    \A i, j \in 1..Len(cloud) :
        RSub(RMul(RSub(cloud[i][1], cloud[1][1]), RSub(cloud[j][2], cloud[1][2])),
             RMul(RSub(cloud[j][1], cloud[1][1]), RSub(cloud[i][2], cloud[1][2])))
          = Int2R(0)

\* kde(points): equal points have equal density
KdeValues(cloud, dens) ==
    [k \in 1..Len(cloud) |->
        Int2R(dens[CHOOSE j \in 1..k : cloud[j] = cloud[k]
                                       /\ \A l \in 1..(j - 1) : cloud[l] # cloud[k]])]

RECURSIVE RMax(_)
RMax(s) == IF Len(s) = 1 THEN s[1]
           ELSE LET m == RMax(Tail(s)) IN IF RLess(m, Head(s)) THEN Head(s) ELSE m

RECURSIVE RMin(_)
RMin(s) == IF Len(s) = 1 THEN s[1]
           ELSE LET m == RMin(Tail(s)) IN IF RLess(Head(s), m) THEN Head(s) ELSE m

\* variant: (kde_values - kde_min) / kde_max
NormaliseByMax(values, kde_min, kde_max) ==
    [k \in 1..Len(values) |-> RDiv(RSub(values[k], kde_min), kde_max)]

\* (kde_values - kde_min) / (kde_max - kde_min)
Normalise(values, kde_min, kde_max) ==
    [k \in 1..Len(values) |-> RDiv(RSub(values[k], kde_min), RSub(kde_max, kde_min))]

RECURSIVE Ravel(_)
\* the rows of a matrix one after the other
Ravel(m) == IF m = <<>> THEN <<>> ELSE Head(m) \o Ravel(Tail(m))

\* reshape of a flat sequence to n rows of w entries
Reshape(flat, n, w) == [i \in 1..n |-> [k \in 1..w |-> flat[(i - 1) * w + k]]]

(***************************************************************************)
(* plot_quantity_multi                                                     *)
(***************************************************************************)
plot_quantity_multi(files, quantity, oracles) ==
    LET M == options.precision
        call == [NoResult EXCEPT !.op = "plot_quantity_multi", !.quantity = quantity,
                                 !.files = files]
    IN
    /\ Idle
    /\ UNCHANGED options
    /\ \E st \in {StackQuantity(files, quantity, M, 1)} :
       IF st.err # "none" THEN Finish(call, [call EXCEPT !.err = st.err]) ELSE
       \E mask \in {ColumnMask(st.rows, M)} :
       \E ys \in {MaskColumns(st.rows, mask)} :
       \E xrow \in {linspace(Int2R(0), mean(TotalTs(st.grid)), M)} :
       \E xs \in {[i \in 1..Len(ys) |-> xrow]} :
       \E masked \in {[call EXCEPT !.grid = st.grid, !.resampled = st.rows,
                                    !.mask = mask, !.ys = ys, !.xs = xs]} :
       \E fx \in {Ravel(xs)}, fy \in {Ravel(ys)} :
       \* np.vstack of two rows of different lengths
       IF Len(fx) # Len(fy) THEN Finish(call, [masked EXCEPT !.err = "ValueError: vstack"]) ELSE
       \E cloud \in {[k \in 1..Len(fx) |-> <<fx[k], fy[k]>>]} :
       IF Collinear(cloud) THEN Finish(call, [masked EXCEPT !.err = "LinAlgError"]) ELSE
       \E dens \in oracles[Len(cloud)] :
       \E kde_values \in {KdeValues(cloud, dens)} :
       \E colors_value \in {Normalise(kde_values, RMin(kde_values), RMax(kde_values))} :
          Finish(call, [masked EXCEPT !.kde_values = kde_values,
                                   !.colors_value = Reshape(colors_value, Len(ys), M),
                                   !.drawn = TRUE])

(***************************************************************************)
(* Expectation and dispersion of a stack                                   *)
(***************************************************************************)
ErrExpectation == "ValueError: Expectation Measure not recognized"

ErrDeviation == "ValueError: Deviation Measure not recognized"

ErrPercentile == "ValueError: Percentiles must be in the range [0, 100]"

ErrShape == "ValueError: x and y must have the same size"

RECURSIVE Reverse(_)
Reverse(s) == IF s = <<>> THEN <<>> ELSE Reverse(Tail(s)) \o <<Head(s)>>

\* variant: sorted(self.options['deviation-values']), without the reversal
SortedAscending(values) == Sorted(values)

\* sorted(self.options['deviation-values'])[::-1]
SortedLevels(values) == Reverse(Sorted(values))

\* np.mean(ys, axis=0), np.median(ys, axis=0), np.average(ys, axis=0) of a
\* stack of w columns
Expectation(measure, ys, w) ==
    [k \in 1..w |->
        IF measure = "median" THEN median(Column(ys, k)) ELSE mean(Column(ys, k))]

ExpectationName(measure) ==
    IF measure = "mean" THEN "Mean Path"
    ELSE IF measure = "median" THEN "Median Path"
    ELSE "Average Path"

\* sig * np.std(ys, axis = 0)
SigmaStd(sig, ys, w) ==
    [k \in 1..w |->
        LET u == std(Column(ys, k))
        IN  IF IsNaN(u.c) THEN u
            ELSE IF RMul(sig, u.c).n = 0 THEN SurdOfRat(Int2R(0))
            ELSE [c |-> RMul(sig, u.c), r |-> u.r]]

Half(x) == RDiv(x, Int2R(2))

\* variant: the whole difference of the two percentiles, not its half
SigmaPctWidth(sig, ys, w) ==
    [k \in 1..w |->
        SurdOfRat(RSub(percentile(Column(ys, k), RAdd(Int2R(50), Half(sig))),
                       percentile(Column(ys, k), RSub(Int2R(50), Half(sig)))))]

\* (np.percentile(ys, 50 + sig/2, axis = 0) - np.percentile(ys, 50 - sig/2, axis = 0))/2
SigmaPct(sig, ys, w) ==
    [k \in 1..w |->
        SurdOfRat(Half(RSub(percentile(Column(ys, k), RAdd(Int2R(50), Half(sig))),
                            percentile(Column(ys, k), RSub(Int2R(50), Half(sig))))))]

\* np.percentile rejects a percentile outside [0, 100]
PctInRange(sigmas) ==
    \A i \in 1..Len(sigmas) :
        /\ RLeq(Int2R(0), RSub(Int2R(50), Half(sigmas[i])))
        /\ RLeq(RAdd(Int2R(50), Half(sigmas[i])), Int2R(100))

\* f"{sigma:.1f}": the level rounded to one decimal
Format1f(x) == Rat((x.n * 20 + x.d) \div (2 * x.d), 10)

SigmaNames(deviation, sigmas) ==
    [i \in 1..Len(sigmas) |->
        [level |-> Format1f(sigmas[i]),
         unit |-> IF deviation = "std" THEN "sigma interval" ELSE "% interval"]]

\* variant: the deviation measure is looked at before the expectation measure
MeasureErrorDeviationFirst(expectation, deviation, sigmas) ==
    IF deviation \notin {"std", "pct"} THEN ErrDeviation
    ELSE IF expectation \notin {"mean", "median", "average"} THEN ErrExpectation
    ELSE IF deviation = "pct" /\ ~PctInRange(sigmas) THEN ErrPercentile
    ELSE "none"

\* the error the measure selection of the shaded plots raises, if any
MeasureError(expectation, deviation, sigmas) ==
    IF expectation \notin {"mean", "median", "average"} THEN ErrExpectation
    ELSE IF deviation \notin {"std", "pct"} THEN ErrDeviation
    ELSE IF deviation = "pct" /\ ~PctInRange(sigmas) THEN ErrPercentile
    ELSE "none"

(***************************************************************************)
(* plot_quantity_shaded                                                    *)
(***************************************************************************)
plot_quantity_shaded(files, quantity) ==
    LET M == options.precision
        call == [NoResult EXCEPT !.op = "plot_quantity_shaded", !.quantity = quantity,
                                 !.files = files]
    IN
    /\ Idle
    /\ UNCHANGED options
    /\ \E st \in {StackQuantity(files, quantity, M, 1)} :
       IF st.err # "none" THEN Finish(call, [call EXCEPT !.err = st.err]) ELSE
       \E mask \in {ColumnMask(st.rows, M)} :
       \E ys \in {MaskColumns(st.rows, mask)} :
       \E w \in {NCols(ys)} :
       \E sigmas \in {SortedLevels(options.values)} :
       \E masked \in {[call EXCEPT !.grid = st.grid, !.resampled = st.rows,
                                    !.mask = mask, !.ys = ys]} :
       \E merr \in {MeasureError(options.expectation, options.deviation, sigmas)} :
       IF merr # "none" THEN Finish(call, [masked EXCEPT !.err = merr]) ELSE
       \E expectation \in {Expectation(options.expectation, ys, w)} :
       \E t_final \in {IF options.expectation = "median" THEN median(TotalTs(st.grid))
                       ELSE mean(TotalTs(st.grid))} :
       \E sigma \in {[i \in 1..Len(sigmas) |->
                        IF options.deviation = "std" THEN SigmaStd(sigmas[i], ys, w)
                        ELSE SigmaPct(sigmas[i], ys, w)]} :
       \E ts \in {linspace(Int2R(0), t_final, M)} :
       \E stats \in {[masked EXCEPT
                        !.expectation = expectation,
                        !.expectation_name = ExpectationName(options.expectation),
                        !.sigmas = sigmas,
                        !.sigma_names = SigmaNames(options.deviation, sigmas),
                        !.sigma = sigma, !.xs = ts]} :
       \* fill_between and plot want as many times as values
       IF Len(ts) # w THEN Finish(call, [stats EXCEPT !.err = ErrShape]) ELSE
          Finish(call, [stats EXCEPT
                       !.bands = [i \in 1..Len(sigmas) |->
                                    [label |-> stats.sigma_names[i],
                                     centre |-> expectation, half |-> sigma[i],
                                     color |-> Rat(i - 1, Len(sigmas))]],
                       !.drawn = TRUE])

(***************************************************************************)
(* Routes: longitude and latitude of one trajectory                        *)
(***************************************************************************)
\* one table resampled for the route plots: ys[0] = lon, ys[1] = lat;
\* the longitude is interpolated and left as it is
ResampleRoute(df, M) ==
    LET g == TimeGrid(df, M)
    IN  IF ~({"time", "lat", "lon"} \subseteq DOMAIN df)
        THEN [err |-> "KeyError", time |-> <<>>, val |-> <<>>]
        ELSE IF g.err # "none" THEN [err |-> g.err, time |-> <<>>, val |-> <<>>]
        ELSE [err |-> "none", time |-> g.time,
              val |-> <<interp(g.time, df["time"], df["lon"]),
                        interp(g.time, df["time"], df["lat"])>>]

RECURSIVE StackRoutes(_, _, _)
\* the loop over the files, from file n on: it stops at the first error
StackRoutes(files, M, n) ==
    IF n > Len(files) THEN [err |-> "none", grid |-> <<>>, rows |-> <<>>]
    ELSE LET r == ResampleRoute(files[n], M)
             rest == StackRoutes(files, M, n + 1)
         IN  IF r.err # "none" THEN [err |-> r.err, grid |-> <<>>, rows |-> <<>>]
             ELSE IF rest.err # "none" THEN rest
             ELSE [err |-> "none", grid |-> <<r.time>> \o rest.grid,
                   rows |-> <<r.val>> \o rest.rows]

\* mask = ~np.any(np.isnan(ys), axis=(1, 2)): one flag per trajectory
RowMask(rows) ==
    [n \in 1..Len(rows) |->
        ~\E c \in 1..2 : \E k \in 1..Len(rows[n][c]) : IsNaN(rows[n][c][k])]

\* ys[mask]
MaskRows(rows, mask) == SelectIdx(rows, mask, 1)

\* ys[:, c, :]
Plane(ys, c) == [n \in 1..Len(ys) |-> ys[n][c]]

(***************************************************************************)
(* plot_route                                                              *)
(***************************************************************************)
plot_route(frame) ==
    LET M == options.precision
        call == [NoResult EXCEPT !.op = "plot_route", !.files = <<frame>>]
    IN
    /\ Idle
    /\ UNCHANGED options
    /\ \E r \in {ResampleRoute(frame, M)} :
       IF r.err # "none" THEN Finish(call, [call EXCEPT !.err = r.err]) ELSE
          Finish(call, [call EXCEPT !.grid = <<r.time>>, !.resampled = <<r.val>>,
                                 !.ys = <<r.val>>, !.drawn = TRUE])

(***************************************************************************)
(* plot_multiple_routes                                                    *)
(***************************************************************************)
plot_multiple_routes(files, oracles) ==
    LET M == options.precision
        call == [NoResult EXCEPT !.op = "plot_multiple_routes", !.files = files]
    IN
    /\ Idle
    /\ UNCHANGED options
    /\ \E st \in {StackRoutes(files, M, 1)} :
       IF st.err # "none" THEN Finish(call, [call EXCEPT !.err = st.err]) ELSE
       \E mask \in {RowMask(st.rows)} :
       \E ys \in {MaskRows(st.rows, mask)} :
       \E masked \in {[call EXCEPT !.grid = st.grid, !.resampled = st.rows,
                                    !.mask = mask, !.ys = ys]} :
       IF options.expectation \notin {"mean", "median", "average"}
       THEN Finish(call, [masked EXCEPT !.err = ErrExpectation]) ELSE
       \E stats \in {[masked EXCEPT
                        !.expectation = <<Expectation(options.expectation, Plane(ys, 1), M),
                                          Expectation(options.expectation, Plane(ys, 2), M)>>,
                        !.expectation_name = ExpectationName(options.expectation)]} :
       \E fx \in {Ravel(Plane(ys, 1))}, fy \in {Ravel(Plane(ys, 2))} :
       \E cloud \in {[k \in 1..Len(fx) |-> <<fx[k], fy[k]>>]} :
       \* gaussian_kde wants at least two points, not all on one line
       IF Len(cloud) = 0 THEN Finish(call, [stats EXCEPT !.err = "ValueError: dataset"]) ELSE
       IF Collinear(cloud) THEN Finish(call, [stats EXCEPT !.err = "LinAlgError"]) ELSE
       \E dens \in oracles[Len(cloud)] :
       \E kde_values \in {KdeValues(cloud, dens)} :
       \E colors_value \in {Normalise(kde_values, RMin(kde_values), RMax(kde_values))} :
          Finish(call, [stats EXCEPT !.kde_values = kde_values,
                                  !.colors_value = Reshape(colors_value, Len(ys), M),
                                  !.drawn = TRUE])

(***************************************************************************)
(* generate_confidence_region                                              *)
(***************************************************************************)
RAbs(x) == [n |-> Abs(x.n), d |-> x.d]

RSq(x) == RMul(x, x)

\* |u| + |v| > d for two values c * sqrt(r) and a rational d >= 0
SumExceeds(u, v, d) ==
    IF u.r = 1 /\ v.r = 1 THEN RLess(d, RAdd(RAbs(u.c), RAbs(v.c)))
    ELSE LET t == RSub(RSub(RSq(d), SurdSq(u)), SurdSq(v))
         IN  \/ RLess(t, Int2R(0))
             \/ RLess(RSq(t), RMul(Int2R(4), RMul(SurdSq(u), SurdSq(v))))

\* the ellipse of position i: Point(x, y).buffer(1) scaled by (sx, sy)
Ellipse(x, y, sx, sy) == [x |-> x, y |-> y, sx |-> sx, sy |-> sy]

\* an ellipse scaled by 0 along an axis has no area
Solid(e) == e.sx.c.n # 0 /\ e.sy.c.n # 0

\* two ellipses share interior points.  Exact when the centres lie on one
\* horizontal or vertical line (the extreme points of the buffer lie on the
\* axes); otherwise the test is made along the line through the centres.
Overlap(e, f) ==
    LET dx == RSub(f.x, e.x)
        dy == RSub(f.y, e.y)
        qe == RAdd(RDiv(RSq(dx), SurdSq(e.sx)), RDiv(RSq(dy), SurdSq(e.sy)))
        qf == RAdd(RDiv(RSq(dx), SurdSq(f.sx)), RDiv(RSq(dy), SurdSq(f.sy)))
        t == RSub(RSub(RMul(qe, qf), qe), qf)
    IN  IF dy.n = 0 THEN SumExceeds(e.sx, f.sx, RAbs(dx))
        ELSE IF dx.n = 0 THEN SumExceeds(e.sy, f.sy, RAbs(dy))
        ELSE \/ RLess(t, Int2R(0))
             \/ RLess(RSq(t), RMul(Int2R(4), RMul(qe, qf)))

RECURSIVE Connected(_, _, _)
\* the ellipses of S joined to those of C by a chain of overlaps
Connected(C, S, ell) ==
    LET more == {j \in S \ C : \E i \in C : Overlap(ell[i], ell[j])}
    IN  IF more = {} THEN C ELSE Connected(C \cup more, S, ell)

Least(S) == CHOOSE i \in S : \A j \in S : i <= j

RECURSIVE Components(_, _)
\* the connected components of the union of the ellipses of S
Components(S, ell) ==
    IF S = {} THEN <<>>
    ELSE LET C == Connected({Least(S)}, S, ell)
         IN  <<C>> \o Components(S \ C, ell)

\* variant: the union without the ellipse of the last position
region_without_last(means_x, means_y, sigma_x, sigma_y) ==
    LET ellipses == [i \in 1..(Len(means_x) - 1) |->
                        Ellipse(means_x[i], means_y[i], sigma_x[i], sigma_y[i])]
    IN  [ellipses |-> ellipses,
         geoms |-> Components({i \in 1..Len(ellipses) : Solid(ellipses[i])}, ellipses)]

\* unary_union(ellipses): the ellipses and the polygons of their union, each
\* polygon given by the ellipses it is made of
generate_confidence_region(means_x, means_y, sigma_x, sigma_y) ==
    LET ellipses == [i \in 1..Len(means_x) |->
                        Ellipse(means_x[i], means_y[i], sigma_x[i], sigma_y[i])]
    IN  [ellipses |-> ellipses,
         geoms |-> Components({i \in 1..Len(ellipses) : Solid(ellipses[i])}, ellipses)]

\* a direct call of the method
GenerateConfidenceRegion(means_x, means_y, sigma_x, sigma_y) ==
    /\ Idle
    /\ UNCHANGED options
    /\ result' = [NoResult EXCEPT
                    !.op = "generate_confidence_region",
                    !.expectation = <<means_x, means_y>>,
                    !.sigma_lon = <<sigma_x>>, !.sigma_lat = <<sigma_y>>,
                    !.regions = <<generate_confidence_region(means_x, means_y,
                                                             sigma_x, sigma_y)>>]

(***************************************************************************)
(* plot_multiple_routes_shaded                                             *)
(***************************************************************************)
NoLabel == [level |-> NaN, unit |-> "none"]

\* variant: the label is not reset after the first polygon
RegionFillsLabelled(region, name, color) ==
    [g \in 1..Len(region.geoms) |->
        [geom |-> region.geoms[g], color |-> color, label |-> name]]

\* the ax.fill calls for the region of one level
RegionFills(region, name, color) ==
    [g \in 1..Len(region.geoms) |->
        [geom |-> region.geoms[g], color |-> color,
         label |-> IF g = 1 THEN name ELSE NoLabel]]

RECURSIVE Fills(_, _, _)
\* the ax.fill calls from level i on, up to the first region without polygon
Fills(regions, names, i) ==
    IF i > Len(regions) \/ regions[i].geoms = <<>> THEN <<>>
    ELSE RegionFills(regions[i], names[i], Rat(i - 1, Len(regions)))
           \o Fills(regions, names, i + 1)

plot_multiple_routes_shaded(files) ==
    LET M == options.precision
        call == [NoResult EXCEPT !.op = "plot_multiple_routes_shaded", !.files = files]
    IN
    /\ Idle
    /\ UNCHANGED options
    /\ \E st \in {StackRoutes(files, M, 1)} :
       IF st.err # "none" THEN FinishShaded([call EXCEPT !.err = st.err]) ELSE
       \E mask \in {RowMask(st.rows)} :
       \E ys \in {MaskRows(st.rows, mask)} :
       \E sigmas \in {SortedLevels(options.values)} :
       \E masked \in {[call EXCEPT !.grid = st.grid, !.resampled = st.rows,
                                    !.mask = mask, !.ys = ys]} :
       \E merr \in {MeasureError(options.expectation, options.deviation, sigmas)} :
       IF merr # "none" THEN FinishShaded([masked EXCEPT !.err = merr]) ELSE
       \E expectation \in {<<Expectation(options.expectation, Plane(ys, 1), M),
                             Expectation(options.expectation, Plane(ys, 2), M)>>} :
       \E sigma_lon \in {[i \in 1..Len(sigmas) |->
                            IF options.deviation = "std"
                            THEN SigmaStd(sigmas[i], Plane(ys, 1), M)
                            ELSE SigmaPct(sigmas[i], Plane(ys, 1), M)]} :
       \E sigma_lat \in {[i \in 1..Len(sigmas) |->
                            IF options.deviation = "std"
                            THEN SigmaStd(sigmas[i], Plane(ys, 2), M)
                            ELSE SigmaPct(sigmas[i], Plane(ys, 2), M)]} :
       \E names \in {SigmaNames(options.deviation, sigmas)} :
       \E stats \in {[masked EXCEPT
                        !.expectation = expectation,
                        !.expectation_name = ExpectationName(options.expectation),
                        !.sigmas = sigmas, !.sigma_names = names,
                        !.sigma_lon = sigma_lon, !.sigma_lat = sigma_lat]} :
       \* no trajectory left: statistics of an empty stack, geometry of nan
       \* coordinates; the libraries raise or give an empty region
       IF ys = <<>> THEN \E e \in {"LibraryError", "none"} :
                            FinishShaded([stats EXCEPT !.err = e, !.drawn = (e = "none")])
       ELSE
       \E regions \in {[i \in 1..Len(sigmas) |->
                          generate_confidence_region(expectation[1], expectation[2],
                                                     sigma_lon[i], sigma_lat[i])]} :
       \E fills \in {Fills(regions, names, 1)} :
       \* a region without area: the union is empty and has no exterior, or
       \* an empty one
       \E e \in IF \E i \in 1..Len(regions) : regions[i].geoms = <<>>
                THEN {"LibraryError", "none"} ELSE {"none"} :
          FinishShaded([stats EXCEPT
                       !.regions = regions,
                       !.fills = fills,
                       !.err = e, !.drawn = (e = "none")])

\* the call has returned or raised; the Plotter keeps nothing of it
Return ==
    /\ result.op # "none"
    /\ result' = NoResult
    /\ UNCHANGED options

\* a call starts when none is in progress
Next ==
    \/ Idle /\ \E f \in Frames, q \in Quantities : plot_quantity(f, q)
    \/ Idle /\ \E fs \in ListsOf(Frames, MaxFiles), q \in Quantities :
           plot_quantity_multi(fs, q, FewOracles)
    \/ Idle /\ \E fs \in ListsOf(Frames, MaxFiles), q \in Quantities :
           plot_quantity_shaded(fs, q)
    \/ Idle /\ \E f \in RouteFrames : plot_route(f)
    \/ Idle /\ \E fs \in ListsOf(RouteFrames, MaxFiles) :
           plot_multiple_routes(fs, FewOracles)
    \/ Idle /\ \E fs \in ListsOf(RouteFrames, MaxFiles) : plot_multiple_routes_shaded(fs)
    \/ Return

Spec == Init /\ [][Next]_vars

(***************************************************************************)
(* Direct calls of generate_confidence_region, which reads no option       *)
(***************************************************************************)
InitRegion ==
    /\ options \in {c \in Configs : /\ c.precision = PathLen
                                    /\ c.expectation = "mean"
                                    /\ c.deviation = "std"
                                    /\ c.values = <<Int2R(1)>>}
    /\ result = NoResult

NextRegion ==
    \/ Idle /\ \E p \in Paths, sx \in PathSigmas, sy \in PathSigmas :
           GenerateConfidenceRegion(p[1], p[2], sx, sy)
    \/ Return

SpecRegion == InitRegion /\ [][NextRegion]_vars

(***************************************************************************)
(* The density plots under every oracle of the estimator                   *)
(***************************************************************************)
KdeFrames == {FrA, FrC, FrD, FrF}

KdeRouteFrames == {FrA, FrB, FrF, FrH}

InitKde ==
    /\ options \in {c \in Configs : /\ c.expectation \in {"mean", "mode"}
                                    /\ c.deviation = "std"
                                    /\ c.values = <<Int2R(1)>>}
    /\ result = NoResult

NextKde ==
    \/ Idle /\ \E fs \in ListsOf(KdeFrames, MaxFiles), q \in {"heading", "velocity"} :
           plot_quantity_multi(fs, q, AllOracles)
    \/ Idle /\ \E fs \in ListsOf(KdeRouteFrames, MaxFiles) :
           plot_multiple_routes(fs, AllOracles)
    \/ Return

SpecKde == InitKde /\ [][NextKde]_vars

(***************************************************************************)
(* The shaded plots over stacks of up to MaxStack trajectories and the     *)
(* measures the aggregation accepts                                        *)
(***************************************************************************)
MaxStack == 3

StackFrames == {FrA, FrB, FrC, FrD}

StackRouteFrames == {FrA, FrB, FrE, FrH}

InitAgg ==
    /\ options \in {c \in Configs : MeasureError(c.expectation, c.deviation, c.values) = "none"}
    /\ result = NoResult

NextAgg ==
    \/ Idle /\ \E fs \in ListsOf(StackFrames, MaxStack), q \in Quantities :
           plot_quantity_shaded(fs, q)
    \/ Idle /\ \E fs \in ListsOf(StackRouteFrames, MaxStack) :
           plot_multiple_routes_shaded(fs)
    \/ Return

SpecAgg == InitAgg /\ [][NextAgg]_vars

(***************************************************************************)
(* Properties                                                              *)
(***************************************************************************)
QuantityStackOps == {"plot_quantity_multi", "plot_quantity_shaded"}

RouteStackOps == {"plot_multiple_routes", "plot_multiple_routes_shaded"}

QuantityOps == {"plot_quantity"} \cup QuantityStackOps

RouteOps == {"plot_route"} \cup RouteStackOps

\* the stack of the call has been built and masked
Stacked == result.mask # <<>>

\* some trajectory of a quantity stack is not finite at grid index k
BadColumn(k) == \E n \in 1..Len(result.resampled) : ~IsFinite(result.resampled[n][k])

\* some trajectory of a route stack is not finite at grid index k
BadRouteColumn(k) ==
    \E n \in 1..Len(result.resampled), c \in 1..2 : ~IsFinite(result.resampled[n][c][k])

\* C1 as claimed: in the four stack operations a grid column is removed
\* for all trajectories exactly when some trajectory is not finite there,
\* and no trajectory is removed
C1_AsClaimed ==
    /\ (result.op \in QuantityStackOps /\ Stacked) =>
          /\ Len(result.ys) = Len(result.resampled)
          /\ \A n \in 1..Len(result.ys) :
                result.ys[n] = SelectIdx(result.resampled[n],
                                         [k \in 1..options.precision |-> ~BadColumn(k)], 1)
    /\ (result.op \in RouteStackOps /\ Stacked) =>
          /\ Len(result.ys) = Len(result.resampled)
          /\ \A n \in 1..Len(result.ys), c \in 1..2 :
                result.ys[n][c] =
                    SelectIdx(result.resampled[n][c],
                              [k \in 1..options.precision |-> ~BadRouteColumn(k)], 1)

\* a trajectory of a route stack has a NaN in its longitudes or latitudes
NanRow(row) == \E c \in 1..2 : \E k \in 1..Len(row[c]) : IsNaN(row[c][k])

\* C1, amended: the quantity stacks (plot_quantity_multi,
\* plot_quantity_shaded) lose exactly the grid columns where some trajectory
\* is NaN, for all trajectories, and keep every trajectory; the route stacks
\* (plot_multiple_routes, plot_multiple_routes_shaded) lose exactly the
\* trajectories that have a NaN anywhere, and keep every grid column of the
\* others
C1_Masking ==
    /\ (result.op \in QuantityStackOps /\ Stacked) =>
          /\ Len(result.ys) = Len(result.resampled)
          /\ \A n \in 1..Len(result.ys) :
                result.ys[n] =
                    SelectIdx(result.resampled[n],
                              [k \in 1..options.precision |->
                                  \A m \in 1..Len(result.resampled) :
                                      ~IsNaN(result.resampled[m][k])], 1)
    /\ (result.op \in RouteStackOps /\ Stacked) =>
          /\ result.ys = SelectIdx(result.resampled,
                                   [n \in 1..Len(result.resampled) |->
                                       ~NanRow(result.resampled[n])], 1)
          /\ \A n \in 1..Len(result.ys), c \in 1..2 :
                Len(result.ys[n][c]) = options.precision

\* a quantity stack of two trajectories that lost one column and kept others
C1_Witness ==
    /\ result.op = "plot_quantity_shaded"
    /\ Stacked
    /\ Len(result.ys) = 2
    /\ \E k \in 1..Len(result.mask) : ~result.mask[k]
    /\ Len(result.ys[1]) >= 1
    /\ \E n \in 1..2 : \A k \in 1..options.precision : ~IsNaN(result.resampled[n][k])

\* the sample times of trajectory i of the call
TimesOf(i) == result.files[i]["time"]

\* the value sequences resampled for trajectory i of the call
SeriesOf(i) ==
    IF result.op \in QuantityOps THEN {result.resampled[i]}
    ELSE {result.resampled[i][1], result.resampled[i][2]}

\* C2: every trajectory is resampled to M = options.precision points: M
\* evenly spaced times whose first is the trajectory's first sample time and
\* whose last is its last sample time, and M values of each resampled
\* quantity
C2_Resampling ==
    \A i \in 1..Len(result.grid) :
        LET g == result.grid[i]
            M == options.precision
        IN  /\ Len(g) = M
            /\ g[1] = TimesOf(i)[1]
            /\ g[M] = TimesOf(i)[Len(TimesOf(i))]
            /\ \A k \in 1..(M - 1) :
                   RMul(Int2R(M - 1), RSub(g[k + 1], g[k])) = RSub(g[M], g[1])
            /\ \A ser \in SeriesOf(i) : Len(ser) = M

\* a trajectory lasting from time 1 to time 5 resampled at three points
C2_Witness ==
    /\ result.op \in QuantityOps \cup RouteOps
    /\ options.precision = 3
    /\ \E i \in 1..Len(result.grid) :
           /\ TimesOf(i) = <<Int2R(1), Int2R(5)>>
           /\ result.grid[i] = <<Int2R(1), Int2R(3), Int2R(5)>>
           /\ Len(result.resampled) >= i

\* x lies in [0, 360)
InCircle(x) == IsFinite(x) /\ RLeq(Int2R(0), x) /\ RLess(x, Int2R(Modulus))

\* C3 as claimed: every operation that resamples a circular quantity, the
\* route operations included, delivers values in [0, 360) (a value that is
\* missing, NaN, is let through)
C3_AsClaimed ==
    /\ (result.op \in QuantityOps /\ result.quantity \in {"lon", "heading"}) =>
          \A i \in 1..Len(result.resampled) : \A k \in 1..Len(result.resampled[i]) :
              IsNaN(result.resampled[i][k]) \/ InCircle(result.resampled[i][k])
    /\ result.op \in RouteOps =>
          \A i \in 1..Len(result.resampled) : \A k \in 1..Len(result.resampled[i][1]) :
              IsNaN(result.resampled[i][1][k]) \/ InCircle(result.resampled[i][1][k])

\* x and y differ by a whole number of turns
SameAngle(x, y) ==
    LET q == RDiv(RSub(x, y), Int2R(Modulus))
    IN  IsFinite(q) /\ q.d = 1

\* the values of column col of trajectory i interpolated linearly on its grid
Linear(i, col) == interp(result.grid[i], TimesOf(i), result.files[i][col])

\* C3, amended: plot_quantity, plot_quantity_multi and plot_quantity_shaded
\* reduce 'lon' and 'heading' modulo 360 after the linear interpolation:
\* each resampled value is the interpolated value brought into [0, 360), a
\* NaN staying NaN, and other quantities are the interpolated values
\* themselves; plot_route, plot_multiple_routes and
\* plot_multiple_routes_shaded do not reduce 'lon': their longitudes are
\* the interpolated values themselves
C3_Circular ==
    /\ result.op \in QuantityOps =>
          \A i \in 1..Len(result.resampled) : \A k \in 1..Len(result.resampled[i]) :
              LET v == result.resampled[i][k]
                  l == Linear(i, result.quantity)[k]
              IN  IF result.quantity \in {"lon", "heading"}
                  THEN IF IsNaN(l) THEN IsNaN(v) ELSE InCircle(v) /\ SameAngle(v, l)
                  ELSE v = l
    /\ result.op \in RouteOps =>
          \A i \in 1..Len(result.resampled) :
              /\ result.resampled[i][1] = Linear(i, "lon")
              /\ result.resampled[i][2] = Linear(i, "lat")

\* a heading interpolated to -3 was delivered as 357, and one interpolated
\* between the samples 363 and 3 was delivered as 243
C3_Witness ==
    /\ result.op \in QuantityOps
    /\ result.quantity = "heading"
    /\ \E i \in 1..Len(result.resampled) :
           /\ result.files[i]["heading"] = <<Int2R(0 - 3), Int2R(363), Int2R(3)>>
           /\ result.resampled[i] = <<Int2R(357), Int2R(243), Int2R(3)>>

\* the stacks the call aggregated, each with the expectation and the
\* dispersions (one per level) computed from it
Aggregates ==
    IF result.expectation = <<>> THEN {}
    ELSE IF result.op = "plot_quantity_shaded"
    THEN {[rows |-> result.ys, exp |-> result.expectation, sig |-> result.sigma]}
    ELSE IF result.op \in RouteStackOps
    THEN {[rows |-> Plane(result.ys, c), exp |-> result.expectation[c],
           sig |-> IF c = 1 THEN result.sigma_lon ELSE result.sigma_lat] : c \in 1..2}
    ELSE {}

\* m is the median of the finite column col: at most half of the values lie
\* on either side of it, and when it is not a value of the column it is the
\* midpoint of the two values nearest to it
IsMedian(m, col) ==
    LET N == Len(col)
        below == {i \in 1..N : RLess(col[i], m)}
        above == {i \in 1..N : RLess(m, col[i])}
    IN  /\ IsFinite(m)
        /\ IF \E i \in 1..N : col[i] = m
           THEN 2 * Cardinality(below) < N /\ 2 * Cardinality(above) < N
           ELSE /\ Cardinality(below) = Cardinality(above)
                /\ \E i \in below, j \in above :
                      /\ \A b \in below : RLeq(col[b], col[i])
                      /\ \A a \in above : RLeq(col[j], col[a])
                      /\ RMul(Int2R(2), m) = RAdd(col[i], col[j])

ExampleStack == <<Ints(<<1, 2, 3>>), Ints(<<3, 4, 5>>)>>

\* C4: the expectation of a stack of N >= 1 rows has one value per retained
\* column: the arithmetic mean of the column for 'mean', its median for
\* 'median'; the mean of [[1,2,3],[3,4,5]] is [2,3,4]
C4_Expectation ==
    \A s \in Aggregates :
        Len(s.rows) >= 1 =>
            /\ Len(s.exp) = NCols(s.rows)
            /\ \A k \in 1..NCols(s.rows) :
                  /\ options.expectation = "mean" =>
                        /\ IsFinite(s.exp[k])
                        /\ RMul(Int2R(Len(s.rows)), s.exp[k]) = RSum(Column(s.rows, k))
                  /\ options.expectation = "median" => IsMedian(s.exp[k], Column(s.rows, k))
            /\ (s.rows = ExampleStack /\ options.expectation = "mean") =>
                  s.exp = Ints(<<2, 3, 4>>)

\* the mean of the example stack, and a median of three trajectories that
\* is not their mean
C4_Witness ==
    /\ result.op = "plot_quantity_shaded"
    /\ result.err = "none"
    /\ \/ /\ options.expectation = "mean"
          /\ result.ys = ExampleStack
          /\ result.expectation = Ints(<<2, 3, 4>>)
       \/ /\ options.expectation = "median"
          /\ Len(result.ys) = 3
          /\ \E k \in 1..Len(result.expectation) :
                RMul(Int2R(3), result.expectation[k]) # RSum(Column(result.ys, k))

\* the sum of the squares of a column
SumSq(col) == RSum([i \in 1..Len(col) |-> RMul(col[i], col[i])])

\* C5: with 'std' the dispersion of level L is, per retained column of a
\* stack of N >= 1 rows, L times the population standard deviation s, the
\* non-negative number with (N s)^2 = N sum(x^2) - (sum x)^2; over
\* [[1,2,3],[3,4,5]] the dispersion of level 1 is [1,1,1]
C5_StdDispersion ==
    options.deviation = "std" =>
        \A s \in Aggregates :
            Len(s.rows) >= 1 =>
                \A i \in 1..Len(s.sig) :
                    /\ Len(s.sig[i]) = NCols(s.rows)
                    /\ \A k \in 1..NCols(s.rows) :
                          LET col == Column(s.rows, k)
                              N == Int2R(Len(col))
                              L == result.sigmas[i]
                              Ns == RDiv(RMul(N, s.sig[i][k].c), L)
                          IN  /\ RLeq(Int2R(0), s.sig[i][k].c)
                              /\ RMul(RMul(Ns, Ns), Int2R(s.sig[i][k].r)) =
                                    RSub(RMul(N, SumSq(col)), RMul(RSum(col), RSum(col)))
                    /\ (s.rows = ExampleStack /\ result.sigmas[i] = Int2R(1)) =>
                          s.sig[i] = [k \in 1..3 |-> SurdOfRat(Int2R(1))]

\* the dispersion [1,1,1] of the example stack, and a dispersion of three
\* trajectories
C5_Witness ==
    /\ result.op = "plot_quantity_shaded"
    /\ result.err = "none"
    /\ options.deviation = "std"
    /\ \/ /\ result.ys = ExampleStack
          /\ \E i \in 1..Len(result.sigmas) :
                /\ result.sigmas[i] = Int2R(1)
                /\ result.sigma[i] = [k \in 1..3 |-> SurdOfRat(Int2R(1))]
       \/ /\ Len(result.ys) = 3
          /\ \E i \in 1..Len(result.sigmas), k \in 1..NCols(result.ys) :
                result.sigma[i][k].r # 1

\* the q-th percentile of the finite column col: the value at q of the line
\* through the sorted values placed evenly from 0 to 100
RankValue(col, q) ==
    LET N == Len(col)
        s == Sorted(col)
        at(i) == Rat(100 * (i - 1), N - 1)
    IN  IF N = 1 THEN s[1]
        ELSE LET i == CHOOSE j \in 1..(N - 1) : RLeq(at(j), q) /\ RLeq(q, at(j + 1))
             IN  RAdd(s[i], RDiv(RMul(RSub(s[i + 1], s[i]), RSub(q, at(i))),
                                 RSub(at(i + 1), at(i))))

\* C6: with 'pct' the dispersion of level L is, per retained column of a
\* stack of N >= 1 rows, half the difference of the (50 + L/2)-th and the
\* (50 - L/2)-th percentile of the column; it is not negative, and the
\* dispersion of a larger level is nowhere smaller than that of a smaller
C6_PctDispersion ==
    options.deviation = "pct" =>
        \A s \in Aggregates :
            Len(s.rows) >= 1 =>
                \A i \in 1..Len(s.sig) :
                    /\ Len(s.sig[i]) = NCols(s.rows)
                    /\ \A k \in 1..NCols(s.rows) :
                          LET col == Column(s.rows, k)
                              L == result.sigmas[i]
                              d == s.sig[i][k]
                          IN  /\ d.r = 1
                              /\ RLeq(Int2R(0), d.c)
                              /\ RMul(Int2R(2), d.c) =
                                    RSub(RankValue(col, RAdd(Int2R(50), RDiv(L, Int2R(2)))),
                                         RankValue(col, RSub(Int2R(50), RDiv(L, Int2R(2)))))
                              /\ \A j \in 1..Len(s.sig) :
                                    RLeq(result.sigmas[j], L) => RLeq(s.sig[j][k].c, d.c)

\* half-widths of three trajectories for the levels 50 and 1, the wider
\* level with the larger half-width
C6_Witness ==
    /\ result.op = "plot_quantity_shaded"
    /\ result.err = "none"
    /\ options.deviation = "pct"
    /\ Len(result.ys) = 3
    /\ result.sigmas = <<Int2R(50), Int2R(1)>>
    /\ \E k \in 1..NCols(result.ys) :
           /\ RLess(Int2R(0), result.sigma[2][k].c)
           /\ RLess(result.sigma[2][k].c, result.sigma[1][k].c)

DensityOps == {"plot_quantity_multi", "plot_multiple_routes"}

\* x lies in [0, 1]
InUnit(x) == RLeq(Int2R(0), x) /\ RLeq(x, Int2R(1))

\* the weights of the call, in the order of the densities
Weights == Ravel(result.colors_value)

\* C7: each point of the pooled cloud has the weight
\* (d - d_min) / (d_max - d_min), d its density and d_min, d_max the least
\* and the largest density of the whole cloud; when d_max > d_min every
\* weight lies in [0, 1], some weight is 0 and some weight is 1
C7_DensityWeights ==
    (result.op \in DensityOps /\ result.kde_values # <<>>) =>
        LET d == result.kde_values
            P == 1..Len(d)
            lo == CHOOSE x \in Range(d) : \A p \in P : RLeq(x, d[p])
            hi == CHOOSE x \in Range(d) : \A p \in P : RLeq(d[p], x)
        IN  /\ Len(Weights) = Len(d)
            /\ Len(d) = Len(result.ys) * options.precision
            /\ RLess(lo, hi) =>
                  /\ \A p \in P : /\ RMul(Weights[p], RSub(hi, lo)) = RSub(d[p], lo)
                                  /\ InUnit(Weights[p])
                  /\ \E p \in P : Weights[p] = Int2R(0)
                  /\ \E p \in P : Weights[p] = Int2R(1)

\* two trajectories whose pooled cloud has three different densities, the
\* least in one trajectory and the largest in the other, and a weight
\* strictly between 0 and 1
C7_Witness ==
    /\ result.op \in DensityOps
    /\ result.err = "none"
    /\ Len(result.colors_value) = 2
    /\ Cardinality(Range(result.kde_values)) = 3
    /\ \E i, j \in 1..2 : \E k, l \in 1..options.precision :
           /\ i # j
           /\ result.colors_value[i][k] = Int2R(0)
           /\ result.colors_value[j][l] = Int2R(1)
           /\ Int2R(1) \notin Range(result.colors_value[i])
    /\ \E p \in 1..Len(Weights) : RLess(Int2R(0), Weights[p]) /\ RLess(Weights[p], Int2R(1))

\* the pooled cloud the density is estimated on, once the stack is built
Cloud ==
    IF result.op = "plot_quantity_multi"
    THEN LET fx == Ravel(result.xs)
             fy == Ravel(result.ys)
         IN  IF Len(fx) # Len(fy) THEN <<>> ELSE [k \in 1..Len(fx) |-> <<fx[k], fy[k]>>]
    ELSE IF result.op = "plot_multiple_routes" /\ result.expectation # <<>>
    THEN LET fx == Ravel(Plane(result.ys, 1))
             fy == Ravel(Plane(result.ys, 2))
         IN  [k \in 1..Len(fx) |-> <<fx[k], fy[k]>>]
    ELSE <<>>

\* every point of the cloud has the same density: the estimator said so, or
\* the points are all the same point
SameDensity ==
    /\ Cloud # <<>>
    /\ IF result.kde_values # <<>>
       THEN \A p \in 1..Len(result.kde_values) : result.kde_values[p] = result.kde_values[1]
       ELSE \A p \in 1..Len(Cloud) : Cloud[p] = Cloud[1]

\* C8 as claimed: when every point of the pooled cloud has the same density
\* the density plots do not raise, and give every point one and the same
\* weight in [0, 1]
C8_AsClaimed ==
    (result.op \in DensityOps /\ SameDensity) =>
        /\ result.err = "none"
        /\ Weights # <<>>
        /\ \A p \in 1..Len(Weights) : InUnit(Weights[p]) /\ Weights[p] = Weights[1]

\* a direct call of generate_confidence_region and what it was given
RegionCall == result.op = "generate_confidence_region"

GivenX == result.expectation[1]

GivenY == result.expectation[2]

GivenSx == result.sigma_lon[1]

GivenSy == result.sigma_lat[1]

Region == result.regions[1]

\* the distance of two neighbouring positions of the call
Spacing == RAdd(RAbs(RSub(GivenX[2], GivenX[1])), RAbs(RSub(GivenY[2], GivenY[1])))

\* one ellipse per position, centred on it, with the two deviations as
\* semi-axes, and every ellipse in exactly one polygon of the union
UnionOfEllipses ==
    /\ Len(Region.ellipses) = Len(GivenX)
    /\ \A i \in 1..Len(GivenX) :
          /\ Region.ellipses[i].x = GivenX[i] /\ Region.ellipses[i].y = GivenY[i]
          /\ Region.ellipses[i].sx = GivenSx[i] /\ Region.ellipses[i].sy = GivenSy[i]
          /\ Cardinality({g \in 1..Len(Region.geoms) : i \in Region.geoms[g]}) = 1

\* twice the deviation u
RMul2(u) == [c |-> RMul(Int2R(2), u.c), r |-> u.r]

\* the deviation u is larger than the rational d >= 0
Exceeds(u, d) == RLess(RMul(d, d), SurdSq(u)) /\ RLess(Int2R(0), u.c)

\* C9 as claimed: the union of one ellipse per position; for collinear
\* positions one connected polygon when the sigmas exceed the spacing and
\* several polygons when they do not
C9_AsClaimed ==
    RegionCall =>
        /\ UnionOfEllipses
        /\ (\A i \in 1..Len(GivenX) : Exceeds(GivenSx[i], Spacing) /\ Exceeds(GivenSy[i], Spacing))
              => Len(Region.geoms) = 1
        /\ (\A i \in 1..Len(GivenX) : ~Exceeds(GivenSx[i], Spacing) /\ ~Exceeds(GivenSy[i], Spacing))
              => Len(Region.geoms) > 1

\* C9, amended: the union of one ellipse per position, centred on it with
\* the two sigmas as semi-axes; for collinear, equally spaced positions with
\* non-zero sigmas it is one connected polygon when the sigmas exceed the
\* spacing, and one separate polygon per position when every sigma is less
\* than half the spacing
C9_Region ==
    RegionCall =>
        /\ UnionOfEllipses
        /\ (\A i \in 1..Len(GivenX) : Exceeds(GivenSx[i], Spacing) /\ Exceeds(GivenSy[i], Spacing))
              => Len(Region.geoms) = 1
        /\ (\A i \in 1..Len(GivenX) :
                /\ ~Exceeds(RMul2(GivenSx[i]), Spacing) /\ RMul2(GivenSx[i]).c # Spacing
                /\ ~Exceeds(RMul2(GivenSy[i]), Spacing) /\ RMul2(GivenSy[i]).c # Spacing)
              => Len(Region.geoms) = Len(GivenX)

\* three positions, two apart, with sigmas 3/2 that do not exceed the
\* spacing: one polygon of the three ellipses
C9_Witness ==
    /\ RegionCall
    /\ Len(GivenX) = 3
    /\ Spacing = Int2R(2)
    /\ \A i \in 1..3 : GivenSx[i] = SurdOfRat(Rat(3, 2)) /\ GivenSy[i] = SurdOfRat(Rat(3, 2))
    /\ Region.geoms = <<{1, 2, 3}>>

\* C10 as claimed: a quantity that is not a column of the first table makes
\* plot_quantity, plot_quantity_multi and plot_quantity_shaded fail with
\* ValueError 'Quantity <name> not found in state vector file.' (the call
\* not being refused for its ax and filename)
C10_AsClaimed ==
    (/\ result.op \in QuantityOps
     /\ ~(result.ax /\ result.filename)
     /\ result.quantity \notin DOMAIN result.files[1])
        => result.err = ErrQuantity

(***************************************************************************)
(* Trajectories of fewer than 2 samples                                    *)
(***************************************************************************)
\* the columns the call reads from each table
Needed ==
    IF result.op \in QuantityOps THEN {"time", result.quantity} ELSE {"time", "lat", "lon"}

\* every table of the call has the columns the call reads
Readable == \A i \in 1..Len(result.files) : Needed \subseteq DOMAIN result.files[i]

\* trajectory i of the call has fewer than 2 samples
Short(i) == Len(result.files[i]["time"]) < 2

\* the errors of the calls that are ValueError
ValueErrors ==
    {ErrBoth, ErrQuantity, ErrExpectation, ErrDeviation, ErrPercentile, ErrShape,
     "ValueError: vstack", "ValueError: dataset"}

\* C11 as claimed: a call of any of the six operations that resamples a
\* trajectory of fewer than 2 samples ends with a ValueError for the invalid
\* input, and no resampled series is produced
C11_AsClaimed ==
    (/\ result.op \in QuantityOps \cup RouteOps
     /\ result.err # ErrBoth
     /\ Readable
     /\ \E i \in 1..Len(result.files) : Short(i))
    => /\ result.err \in ValueErrors
       /\ result.resampled = <<>>

(***************************************************************************)
(* Unrecognized measures                                                   *)
(***************************************************************************)
ShadedOps == {"plot_quantity_shaded", "plot_multiple_routes_shaded"}

KnownExpectation == options.expectation \in {"mean", "median", "average"}

KnownDeviation == options.deviation \in {"std", "pct"}

\* nothing of the statistics has been drawn: no band, no region, no
\* expectation path
NothingDrawn ==
    /\ result.bands = <<>>
    /\ result.regions = <<>>
    /\ result.fills = <<>>
    /\ result.expectation = <<>>
    /\ ~result.drawn

\* C12: a call of plot_quantity_shaded or plot_multiple_routes_shaded that
\* has built its stack ends with the ValueError 'Expectation Measure not
\* recognized' when expectation-measure is not mean, median or average
\* (also when deviation-measure is unrecognized too), with the ValueError
\* 'Deviation Measure not recognized' when only deviation-measure is not
\* std or pct, and in both cases no band, no region and no expectation path
\* has been drawn
C12_UnsupportedMeasure ==
    (result.op \in ShadedOps /\ Stacked) =>
       /\ ~KnownExpectation => result.err = ErrExpectation
       /\ (KnownExpectation /\ ~KnownDeviation) => result.err = ErrDeviation
       /\ ~(KnownExpectation /\ KnownDeviation) => NothingDrawn

\* a route call with both measures unrecognized has raised the expectation
\* error
C12_Witness ==
    /\ result.op = "plot_multiple_routes_shaded"
    /\ Stacked
    /\ ~KnownExpectation
    /\ ~KnownDeviation
    /\ result.err = ErrExpectation
    /\ NothingDrawn

(***************************************************************************)
(* Order of the dispersion levels                                          *)
(***************************************************************************)
Descending(s) == \A i \in 1..(Len(s) - 1) : RLeq(s[i + 1], s[i])

\* how many times v occurs in s
Times(v, s) == Cardinality({i \in 1..Len(s) : s[i] = v})

\* s is a rearrangement of t
SameLevels(s, t) ==
    /\ Len(s) = Len(t)
    /\ \A v \in Range(s) \cup Range(t) : Times(v, s) = Times(v, t)

\* the dispersion of level L over the w columns of a stack
LevelDispersion(L, rows, w) ==
    IF options.deviation = "std" THEN SigmaStd(L, rows, w) ELSE SigmaPct(L, rows, w)

\* u <= v for two values c * sqrt(r), c >= 0, that are multiples of one root
\* or of which u is 0
SurdLeq(u, v) ==
    \/ u.c.n = 0 /\ RLeq(Int2R(0), v.c)
    \/ u.r = v.r /\ RLeq(Int2R(0), u.c) /\ RLeq(u.c, v.c)

\* the half-widths a are nowhere wider than the half-widths b
NoWider(a, b) == \A k \in 1..Len(a) : SurdLeq(a[k], b[k])

\* the semi-axes of the ellipses of a region, along x and along y
AxesX(region) == [k \in 1..Len(region.ellipses) |-> region.ellipses[k].sx]

AxesY(region) == [k \in 1..Len(region.ellipses) |-> region.ellipses[k].sy]

\* the levels of the call are in descending order, and the i-th name, band
\* and region are those of the i-th largest level
LevelOrder ==
    (result.op \in ShadedOps /\ result.sigmas # <<>>) =>
       LET n == Len(result.sigmas) IN
       /\ Descending(result.sigmas)
       /\ SameLevels(result.sigmas, options.values)
       /\ Len(result.sigma_names) = n
       /\ \A i \in 1..n : result.sigma_names[i].level = Format1f(result.sigmas[i])
       /\ result.bands # <<>> =>
             /\ Len(result.bands) = n
             /\ \A i \in 1..n :
                   /\ result.bands[i].label = result.sigma_names[i]
                   /\ result.bands[i].half =
                         LevelDispersion(result.sigmas[i], result.ys, NCols(result.ys))
             /\ \A i \in 1..(n - 1) : NoWider(result.bands[i + 1].half, result.bands[i].half)
       /\ result.regions # <<>> =>
             /\ Len(result.regions) = n
             /\ \A i \in 1..n :
                   /\ AxesX(result.regions[i]) =
                         LevelDispersion(result.sigmas[i], Plane(result.ys, 1),
                                         options.precision)
                   /\ AxesY(result.regions[i]) =
                         LevelDispersion(result.sigmas[i], Plane(result.ys, 2),
                                         options.precision)
             /\ \A i \in 1..(n - 1) :
                   /\ NoWider(AxesX(result.regions[i + 1]), AxesX(result.regions[i]))
                   /\ NoWider(AxesY(result.regions[i + 1]), AxesY(result.regions[i]))
             /\ \A f, g \in 1..Len(result.fills) :
                   f < g => RLeq(result.fills[f].color, result.fills[g].color)

\* C13: whatever the order of deviation-values, a shaded call leaves the
\* configured list unchanged and works on its levels in descending order:
\* the i-th legend name, the i-th band (plot_quantity_shaded) and the i-th
\* region (plot_multiple_routes_shaded) are those of the i-th largest
\* level, and each band or region is drawn before the narrower ones
C13_DescendingLevels == []LevelOrder /\ [][options' = options]_vars

\* a call configured with the levels (1, 50) has drawn the band of level 50
\* first and the narrower band of level 1 second
C13_Witness ==
    /\ result.op = "plot_quantity_shaded"
    /\ options.values = <<Int2R(1), Int2R(50)>>
    /\ result.sigmas = <<Int2R(50), Int2R(1)>>
    /\ Len(result.bands) = 2
    /\ result.bands[1].label.level = Int2R(50)
    /\ result.bands[2].label.level = Int2R(1)
    /\ \E k \in 1..NCols(result.ys) :
          /\ SurdLeq(result.bands[2].half[k], result.bands[1].half[k])
          /\ result.bands[2].half[k] # result.bands[1].half[k]

(***************************************************************************)
(* Resampling twice                                                        *)
(***************************************************************************)
\* the resampled trajectory i of the call as a table: its samples are the
\* grid times and the resampled values
ResampledTable(i) ==
    IF result.op \in QuantityOps
    THEN [c \in {"time", result.quantity} |->
            IF c = "time" THEN result.grid[i] ELSE result.resampled[i]]
    ELSE [c \in {"time", "lon", "lat"} |->
            IF c = "time" THEN result.grid[i]
            ELSE IF c = "lon" THEN result.resampled[i][1] ELSE result.resampled[i][2]]

\* that table resampled again by the same operation to the same M
Again(i) ==
    IF result.op \in QuantityOps
    THEN ResampleQuantity(ResampledTable(i), result.quantity, options.precision)
    ELSE ResampleRoute(ResampledTable(i), options.precision)

\* C14: resampling the M-point resampled series of any trajectory of any of
\* the six operations again to M points succeeds and gives the same M times
\* and the same M values, a value reduced modulo 360 and a NaN included
C14_Idempotent ==
    (result.op \in QuantityOps \cup RouteOps) =>
       \A i \in 1..Len(result.resampled) :
          /\ Again(i).err = "none"
          /\ Again(i).time = result.grid[i]
          /\ Again(i).val = result.resampled[i]

\* a circular quantity has been resampled, some value has been reduced
\* modulo 360, the times span an interval, and resampling again returned
\* the same series
C14_Witness ==
    /\ result.op \in QuantityOps
    /\ Circular(result.quantity)
    /\ Len(result.resampled) >= 1
    /\ result.grid[1][1] # result.grid[1][options.precision]
    /\ \E k \in 1..options.precision : result.resampled[1][k] # Linear(1, result.quantity)[k]
    /\ Again(1).time = result.grid[1]
    /\ Again(1).val = result.resampled[1]

(***************************************************************************)
(* The wrap of a circular quantity                                         *)
(***************************************************************************)
\* trajectory i of the call has the 2 samples 350 and 10 of the quantity
WrapsAround(i) ==
    /\ result.quantity \in DOMAIN result.files[i]
    /\ result.files[i][result.quantity] = <<Int2R(350), Int2R(10)>>

\* the largest number of points the trajectory is resampled to besides M
MaxOddPrecision == 7

OddPrecisions == {M \in 3..MaxOddPrecision : M % 2 = 1}

\* C15: in plot_quantity, plot_quantity_multi and plot_quantity_shaded a
\* circular quantity ('lon', 'heading') whose 2 samples are 350 and 10,
\* resampled to an odd number M of points, has the value 180 at the middle
\* grid point (M + 1) / 2: so it is for the M of the call, and for the same
\* trajectory resampled to every odd number of points from 3 to
\* MaxOddPrecision
C15_WrapArtifact ==
    (result.op \in QuantityOps /\ Circular(result.quantity)) =>
       \A i \in 1..Len(result.resampled) :
          WrapsAround(i) =>
             /\ options.precision % 2 = 1 =>
                   result.resampled[i][(options.precision + 1) \div 2] = Int2R(180)
             /\ \A M \in OddPrecisions :
                   ResampleQuantity(result.files[i], result.quantity, M).val[(M + 1) \div 2]
                      = Int2R(180)

\* the samples 350 and 10 of the heading have been resampled to 3 points,
\* the middle one being 180
C15_Witness ==
    /\ result.op = "plot_quantity"
    /\ result.quantity = "heading"
    /\ options.precision = 3
    /\ Len(result.resampled) = 1
    /\ WrapsAround(1)
    /\ result.resampled[1] = <<Int2R(350), Int2R(180), Int2R(10)>>

(***************************************************************************)
(* Legend labels of the confidence regions                                 *)
(***************************************************************************)
RECURSIVE FillsBefore(_)
\* the number of polygons of the regions of the levels before level i
FillsBefore(i) ==
    IF i = 1 THEN 0 ELSE FillsBefore(i - 1) + Len(result.regions[i - 1].geoms)

\* the g-th fill of level i
LevelFill(i, g) == result.fills[FillsBefore(i) + g]

\* the fills of level i that carry a label
Labelled(i) ==
    {g \in 1..Len(result.regions[i].geoms) : LevelFill(i, g).label # NoLabel}

\* C16: in plot_multiple_routes_shaded, for every level whose region has
\* at least one polygon, every polygon of the region is filled, in the
\* order of the region's components, exactly one of these fills carries a
\* label, that fill is the first one and its label is the level's legend
\* name; a region of one polygon has its single fill labelled, and the
\* second and later components of a multi-polygon have no label
C16_OneLabel ==
    (result.op = "plot_multiple_routes_shaded" /\ result.regions # <<>>) =>
       \A i \in 1..Len(result.regions) :
          result.regions[i].geoms # <<>> =>
             /\ Len(result.fills) >= FillsBefore(i + 1)
             /\ \A g \in 1..Len(result.regions[i].geoms) :
                   LevelFill(i, g).geom = result.regions[i].geoms[g]
             /\ Labelled(i) = {1}
             /\ LevelFill(i, 1).label = result.sigma_names[i]

\* a call has drawn two levels, the region of the first being one polygon
\* with the label of the level and the region of the second being several
\* polygons of which only the first has the label
C16_Witness ==
    /\ result.op = "plot_multiple_routes_shaded"
    /\ result.err = "none"
    /\ Len(result.regions) = 2
    /\ Len(result.regions[1].geoms) = 1
    /\ Len(result.regions[2].geoms) >= 2
    /\ Len(result.fills) = 1 + Len(result.regions[2].geoms)
    /\ LevelFill(1, 1).label = result.sigma_names[1]
    /\ LevelFill(2, 1).label = result.sigma_names[2]
    /\ \A g \in 2..Len(result.regions[2].geoms) : LevelFill(2, g).label = NoLabel

(***************************************************************************)
(* Both ax and filename given                                              *)
(***************************************************************************)
\* no file has been decoded and nothing has been drawn
Untouched ==
    /\ result.grid = <<>>
    /\ result.resampled = <<>>
    /\ result.bands = <<>>
    /\ result.fills = <<>>
    /\ ~result.drawn

\* C17 as claimed: a call of any of the six operations with both ax and
\* filename given raises the ValueError 'Cannot specify both ax and
\* filename' before a file is decoded or anything is drawn, and a call that
\* returns normally with a filename given has saved the figure
C17_AsClaimed ==
    (result.op \in QuantityOps \cup RouteOps) =>
       /\ (result.ax /\ result.filename) => (result.err = ErrBoth /\ Untouched)
       /\ (result.err = "none" /\ result.filename) => result.saved

(***************************************************************************)
(* The common time axis of a quantity stack                                *)
(***************************************************************************)
\* the number of points of the time axis the call pairs with its stack
AxisLen ==
    IF result.op = "plot_quantity_multi" THEN NCols(result.xs) ELSE Len(result.xs)

\* C18 as claimed: in plot_quantity_multi and plot_quantity_shaded the
\* common time axis has exactly as many points as the masked stack has
\* columns, also when some column has been masked out, and the call pairs
\* every retained value with a time (it does not fail on the sizes)
C18_AsClaimed ==
    (result.op \in QuantityStackOps /\ Stacked /\ result.xs # <<>>) =>
       /\ AxisLen = NCols(result.ys)
       /\ result.err \notin {"ValueError: vstack", ErrShape}

====
